---- MODULE Spec2Model ----
(***************************************************************************)
(* mkusb.h: the exported function surface of the light-meter driver        *)
(* library.  The header has no code of its own; what it does is what a     *)
(* translation unit that includes it receives.  The model is therefore the *)
(* line-by-line processing of the header by the C/C++ front end: the       *)
(* macro table, the conditional-inclusion stack, the open extern "C"       *)
(* block, and the table of function declarations the unit ends up with.    *)
(***************************************************************************)
EXTENDS Integers, Sequences, FiniteSets, TLC

(* How many times one translation unit includes the header. *)
MaxIncludes == 2

(***************************************************************************)
(* C types and parameters as they are written in the header.               *)
(***************************************************************************)
T(b) == [base |-> b, ptr |-> FALSE]

Ptr(b) == [base |-> b, ptr |-> TRUE]

P(t, n) == [type |-> t, name |-> n]

(* "DLLEXP <ret> __cdecl <name>(<params>);" : every declaration of the     *)
(* header is written with the DLLEXP macro, __cdecl and no body.           *)
Fn(r, n, ps) ==
    [decor |-> "DLLEXP", ret |-> r, conv |-> "__cdecl", name |-> n,
     params |-> ps, body |-> FALSE]

IntegerBases == {"int", "unsigned int", "unsigned short", "unsigned"}

(***************************************************************************)
(* The declarations, one definition per declared function.                 *)
(***************************************************************************)
(* Variant of mk_version defined inline in the header, with a body. *)
mk_version_inline ==
    [Fn(T("unsigned int"), "mk_version", <<>>) EXCEPT !.body = TRUE]

mk_version == Fn(T("unsigned int"), "mk_version", <<>>)

mk_Init == Fn(T("bool"), "mk_Init", <<P(T("int"), "isMonitor"), P(T("int"), "msec")>>)

mk_Close == Fn(T("void"), "mk_Close", <<>>)

mk_IsUpdate == Fn(T("bool"), "mk_IsUpdate", <<>>)

mk_SpDevScan == Fn(T("bool"), "mk_SpDevScan", <<>>)

mk_FindFirst == Fn(T("bool"), "mk_FindFirst", <<P(Ptr("char"), "name")>>)

mk_FindNext == Fn(T("bool"), "mk_FindNext", <<P(Ptr("char"), "name")>>)

(* Variant of mk_FindClose that reports nothing. *)
mk_FindClose_void == Fn(T("void"), "mk_FindClose", <<>>)

mk_FindClose == Fn(T("bool"), "mk_FindClose", <<>>)

mk_GetDeviceCnt == Fn(T("int"), "mk_GetDeviceCnt", <<>>)

mk_GetOptSnByName ==
    Fn(T("int"), "mk_GetOptSnByName", <<P(Ptr("char"), "name"), P(Ptr("char"), "sn")>>)

mk_OpenSpDev == Fn(T("int"), "mk_OpenSpDev", <<P(Ptr("char"), "Name")>>)

(* Variant of mk_OpenSpDev_OptSn that takes a number instead of the serial string. *)
mk_OpenSpDev_OptSn_byNumber == Fn(T("int"), "mk_OpenSpDev_OptSn", <<P(T("int"), "sn")>>)

mk_OpenSpDev_OptSn == Fn(T("int"), "mk_OpenSpDev_OptSn", <<P(Ptr("char"), "sn")>>)

mk_CloseSpDev == Fn(T("bool"), "mk_CloseSpDev", <<P(T("int"), "i")>>)

mk_Msr_Capture ==
    Fn(T("bool"), "mk_Msr_Capture",
       <<P(T("int"), "i"), P(T("unsigned short"), "isAuto"),
         P(T("unsigned short"), "ExpTime")>>)

mk_Msr_Capture_multi ==
    Fn(T("bool"), "mk_Msr_Capture_multi",
       <<P(Ptr("int"), "list"), P(Ptr("bool"), "result"), P(T("int"), "dev_cnt"),
         P(T("unsigned short"), "isAuto"), P(T("unsigned short"), "ExpTime")>>)

mk_Msr_Dark == Fn(T("bool"), "mk_Msr_Dark", <<P(T("int"), "i")>>)

mk_Msr_GetDarkStus ==
    Fn(T("bool"), "mk_Msr_GetDarkStus", <<P(T("int"), "i"), P(Ptr("int"), "stus")>>)

(* Variant of mk_Msr_Dark_multi without the per-device outcome array. *)
mk_Msr_Dark_multi_noErr ==
    Fn(T("bool"), "mk_Msr_Dark_multi",
       <<P(Ptr("int"), "list"), P(T("int"), "dev_cnt")>>)

mk_Msr_Dark_multi ==
    Fn(T("bool"), "mk_Msr_Dark_multi",
       <<P(Ptr("int"), "list"), P(T("int"), "dev_cnt"), P(Ptr("bool"), "pErr")>>)

mk_Msr_SetMaxExpTime ==
    Fn(T("bool"), "mk_Msr_SetMaxExpTime",
       <<P(T("int"), "i"), P(T("unsigned int"), "maxtime")>>)

mk_Msr_SetExpMode ==
    Fn(T("bool"), "mk_Msr_SetExpMode", <<P(T("int"), "i"), P(T("unsigned int"), "mode")>>)

mk_Msr_AutoDarkCtrl ==
    Fn(T("bool"), "mk_Msr_AutoDarkCtrl", <<P(T("int"), "i"), P(T("unsigned int"), "ctl")>>)

mk_Msr_SetCorrMatrixCH ==
    Fn(T("bool"), "mk_Msr_SetCorrMatrixCH", <<P(T("int"), "i"), P(T("unsigned int"), "ch")>>)

mk_Msr_GetCorrMatrixPara ==
    Fn(T("bool"), "mk_Msr_GetCorrMatrixPara",
       <<P(T("int"), "i"), P(T("unsigned int"), "ch"), P(Ptr("char"), "name"),
         P(Ptr("double"), "data")>>)

(* Variant of mk_Msr_SetCorrMatrixPara that takes a float array. *)
mk_Msr_SetCorrMatrixPara_float ==
    Fn(T("bool"), "mk_Msr_SetCorrMatrixPara",
       <<P(T("int"), "i"), P(T("unsigned int"), "ch"), P(Ptr("char"), "name"),
         P(Ptr("float"), "data")>>)

mk_Msr_SetCorrMatrixPara ==
    Fn(T("bool"), "mk_Msr_SetCorrMatrixPara",
       <<P(T("int"), "i"), P(T("unsigned int"), "ch"), P(Ptr("char"), "name"),
         P(Ptr("double"), "data")>>)

mk_Msr_GenerateCorrMatrix ==
    Fn(T("bool"), "mk_Msr_GenerateCorrMatrix",
       <<P(Ptr("double"), "ref"), P(Ptr("double"), "mes"), P(T("int"), "len"),
         P(Ptr("double"), "corr"), P(T("int"), "colorspace")>>)

mk_GetData ==
    Fn(T("bool"), "mk_GetData",
       <<P(T("int"), "i"), P(T("int"), "type"), P(Ptr("float"), "data")>>)

mk_GetSpectrum ==
    Fn(T("bool"), "mk_GetSpectrum",
       <<P(T("int"), "i"), P(T("int"), "str"), P(T("int"), "stp"),
         P(Ptr("float"), "data")>>)

mk_GetMicroMole ==
    Fn(T("bool"), "mk_GetMicroMole",
       <<P(T("int"), "i"), P(T("int"), "str"), P(T("int"), "stp"),
         P(Ptr("float"), "data")>>)

(* Variant of mk_GetOptSn that returns the string it allocated. *)
mk_GetOptSn_returnsString == Fn(Ptr("char"), "mk_GetOptSn", <<P(T("int"), "i")>>)

mk_GetOptSn == Fn(T("bool"), "mk_GetOptSn", <<P(T("int"), "i"), P(Ptr("char"), "sn")>>)

mk_GetLightStrnegth == Fn(T("int"), "mk_GetLightStrnegth", <<P(T("int"), "i")>>)

mk_lv_GetOptSn == Fn(T("bool"), "mk_lv_GetOptSn", <<P(T("int"), "i"), P(Ptr("char"), "sn")>>)

mk_lv_SetOptSn == Fn(T("bool"), "mk_lv_SetOptSn", <<P(T("int"), "i"), P(Ptr("char"), "sn")>>)

(* Variant of mk_Peri_GetTemp that lost its device index. *)
mk_Peri_GetTemp_noIndex == Fn(T("bool"), "mk_Peri_GetTemp", <<P(Ptr("float"), "data")>>)

mk_Peri_GetTemp ==
    Fn(T("bool"), "mk_Peri_GetTemp", <<P(T("int"), "i"), P(Ptr("float"), "data")>>)

mk_Peri_SetLCD ==
    Fn(T("bool"), "mk_Peri_SetLCD", <<P(T("int"), "i"), P(T("unsigned short"), "percent")>>)

mk_Peri_KeyEnable == Fn(T("bool"), "mk_Peri_KeyEnable", <<P(T("int"), "i")>>)

mk_Peri_KeyDisable == Fn(T("bool"), "mk_Peri_KeyDisable", <<P(T("int"), "i")>>)

mk_Peri_KeyClear == Fn(T("bool"), "mk_Peri_KeyClear", <<P(T("int"), "i")>>)

mk_Peri_KeyGet ==
    Fn(T("bool"), "mk_Peri_KeyGet", <<P(T("int"), "i"), P(Ptr("unsigned int"), "key")>>)

mk_Info_Get ==
    Fn(T("bool"), "mk_Info_Get",
       <<P(T("int"), "i"), P(T("int"), "id"), P(Ptr("char"), "str_info")>>)

mk_flk_Dark == Fn(T("bool"), "mk_flk_Dark", <<P(T("int"), "i")>>)

mk_flk_SetPara ==
    Fn(T("bool"), "mk_flk_SetPara",
       <<P(T("int"), "i"), P(T("unsigned int"), "sample_num"),
         P(T("unsigned int"), "sample_freq"), P(T("unsigned int"), "fir_num"),
         P(T("unsigned"), "fir_cutfreq")>>)

(* Variant of mk_flk_Capture without the FIR enable flag. *)
mk_flk_Capture_noFir ==
    Fn(T("bool"), "mk_flk_Capture",
       <<P(T("int"), "i"), P(T("unsigned short"), "isAutoGain"),
         P(T("unsigned short"), "gain")>>)

mk_flk_Capture ==
    Fn(T("bool"), "mk_flk_Capture",
       <<P(T("int"), "i"), P(T("unsigned short"), "isAutoGain"),
         P(T("unsigned short"), "gain"), P(T("unsigned short"), "enable_fir")>>)

mk_flk_GetData ==
    Fn(T("bool"), "mk_flk_GetData",
       <<P(T("int"), "i"), P(T("int"), "type"), P(Ptr("float"), "data")>>)

mk_flk_GetTimeDomainWaveform ==
    Fn(T("bool"), "mk_flk_GetTimeDomainWaveform",
       <<P(T("int"), "i"), P(T("int"), "size"), P(Ptr("float"), "data")>>)

mk_flk_GetFreqDomainWaveform ==
    Fn(T("bool"), "mk_flk_GetFreqDomainWaveform",
       <<P(T("int"), "i"), P(T("int"), "size"), P(Ptr("float"), "freq"),
         P(Ptr("float"), "data")>>)

mk_senr_Msr_Dark == Fn(T("bool"), "mk_senr_Msr_Dark", <<P(T("int"), "i")>>)

mk_senr_Msr_Capture ==
    Fn(T("bool"), "mk_senr_Msr_Capture",
       <<P(T("int"), "i"), P(T("unsigned short"), "isAuto"),
         P(T("unsigned int"), "ExpTime")>>)

mk_sflk_Dark ==
    Fn(T("bool"), "mk_sflk_Dark",
       <<P(T("int"), "i"), P(T("unsigned int"), "uexptime"),
         P(T("unsigned int"), "sampletime")>>)

mk_sflk_SetPara ==
    Fn(T("bool"), "mk_sflk_SetPara",
       <<P(T("int"), "i"), P(T("unsigned int"), "sample_num"),
         P(T("unsigned int"), "sample_freq"), P(T("unsigned int"), "fir_num"),
         P(T("unsigned"), "fir_cutfreq")>>)

mk_sflk_Capture ==
    Fn(T("bool"), "mk_sflk_Capture",
       <<P(T("int"), "i"), P(T("unsigned int"), "uexptime"),
         P(T("unsigned short"), "enable_fir")>>)

mk_sflk_CaptureRaw ==
    Fn(T("bool"), "mk_sflk_CaptureRaw",
       <<P(T("int"), "i"), P(T("unsigned int"), "uexptime"), P(Ptr("void"), "ptr")>>)

mk_sflk_GetData ==
    Fn(T("bool"), "mk_sflk_GetData",
       <<P(T("int"), "i"), P(T("int"), "type"), P(Ptr("float"), "data")>>)

mk_senr_GetPeakSpRaw ==
    Fn(T("bool"), "mk_senr_GetPeakSpRaw",
       <<P(T("int"), "i"), P(T("unsigned int"), "exptime"),
         P(Ptr("unsigned int"), "data")>>)

(***************************************************************************)
(* The lines of the header, in file order.                                 *)
(***************************************************************************)
Line(k, a) == [kind |-> k, arg |-> a]

Blank == Line("blank", "")

Ifndef(m) == Line("ifndef", m)

(* Variant of #ifdef with the test inverted. *)
IfdefInverted(m) == Line("ifndef", m)

Ifdef(m) == Line("ifdef", m)

Else == Line("else", "")

Endif == Line("endif", "")

Define(m, v) == Line("define", [macro |-> m, value |-> v])

Include(f) == Line("include", f)

ExternOpen == Line("extern_open", "C")

ExternClose == Line("extern_close", "")

Decl(f) == Line("decl", f)

Header ==
    <<
       Ifndef("MKUSB_H"), Define("MKUSB_H", ""), Blank, Include("windows.h"),   \* 1
       Ifdef("COMPILING_DLL"), Define("DLLEXP", "__declspec(dllexport)"), Else, Define("DLLEXP", "__declspec(dllimport)"),   \* 5
       Endif, Blank, Blank, Ifdef("__cplusplus"),   \* 9
       ExternOpen, Endif, Blank, Blank,   \* 13
       Decl(mk_version), Blank, Decl(mk_Init), Blank,   \* 17
       Decl(mk_Close), Blank, Decl(mk_IsUpdate), Blank,   \* 21
       Decl(mk_SpDevScan), Blank, Decl(mk_FindFirst), Blank,   \* 25
       Decl(mk_FindNext), Blank, Decl(mk_FindClose), Blank,   \* 29
       Decl(mk_GetDeviceCnt), Blank, Decl(mk_GetOptSnByName), Blank,   \* 33
       Decl(mk_OpenSpDev), Blank, Decl(mk_OpenSpDev_OptSn), Blank,   \* 37
       Decl(mk_CloseSpDev), Blank, Decl(mk_Msr_Capture), Blank,   \* 41
       Decl(mk_Msr_Capture_multi), Blank, Decl(mk_Msr_Dark), Blank,   \* 45
       Decl(mk_Msr_GetDarkStus), Blank, Decl(mk_Msr_Dark_multi), Blank,   \* 49
       Decl(mk_Msr_SetMaxExpTime), Blank, Decl(mk_Msr_SetExpMode), Blank,   \* 53
       Decl(mk_Msr_AutoDarkCtrl), Blank, Decl(mk_Msr_SetCorrMatrixCH), Blank,   \* 57
       Decl(mk_Msr_GetCorrMatrixPara), Blank, Decl(mk_Msr_SetCorrMatrixPara), Blank,   \* 61
       Decl(mk_Msr_GenerateCorrMatrix), Blank, Decl(mk_GetData), Blank,   \* 65
       Decl(mk_GetSpectrum), Blank, Decl(mk_GetMicroMole), Blank,   \* 69
       Decl(mk_GetOptSn), Blank, Decl(mk_GetLightStrnegth), Blank,   \* 73
       Decl(mk_lv_GetOptSn), Blank, Decl(mk_lv_SetOptSn), Blank,   \* 77
       Decl(mk_Peri_GetTemp), Blank, Decl(mk_Peri_SetLCD), Blank,   \* 81
       Decl(mk_Peri_KeyEnable), Blank, Decl(mk_Peri_KeyDisable), Blank,   \* 85
       Decl(mk_Peri_KeyClear), Blank, Decl(mk_Peri_KeyGet), Blank,   \* 89
       Decl(mk_Info_Get), Blank, Decl(mk_flk_Dark), Blank,   \* 93
       Decl(mk_flk_SetPara), Blank, Decl(mk_flk_Capture), Blank,   \* 97
       Decl(mk_flk_GetData), Blank, Decl(mk_flk_GetTimeDomainWaveform), Blank,   \* 101
       Decl(mk_flk_GetFreqDomainWaveform), Blank, Decl(mk_senr_Msr_Dark), Blank,   \* 105
       Decl(mk_senr_Msr_Capture), Blank, Decl(mk_sflk_Dark), Blank,   \* 109
       Decl(mk_sflk_SetPara), Blank, Decl(mk_sflk_Capture), Blank,   \* 113
       Decl(mk_sflk_CaptureRaw), Blank, Decl(mk_sflk_GetData), Blank,   \* 117
       Decl(mk_senr_GetPeakSpRaw), Blank, Ifdef("__cplusplus"), ExternClose,   \* 121
       Endif, Blank, Endif   \* 125
    >>

EndOfFile == Len(Header) + 1

(***************************************************************************)
(* State of the translation unit while it reads the header.                *)
(***************************************************************************)
VARIABLES
    pc,        \* the line of the header read next; EndOfFile when read through
    macros,    \* macro name -> its replacement text, or Undef
    cond,      \* stack of open #if groups: [active, taken]
    externC,   \* TRUE inside an open extern "C" { block
    decls,     \* the function declarations the unit has received
    defs,      \* names the header has defined (function bodies)
    included   \* how many times the unit has started to include the header

vars == <<pc, macros, cond, externC, decls, defs, included>>

Undef == "<undefined>"

MacroNames == {"MKUSB_H", "COMPILING_DLL", "__cplusplus", "DLLEXP"}

Defined(m) == macros[m] # Undef

(* A line is compiled only when every enclosing #if group is active. *)
Active(st) == st = <<>> \/ st[Len(st)].active

(* A macro name in a declaration is replaced by its text when defined. *)
Expand(tok) == IF tok \in MacroNames /\ Defined(tok) THEN macros[tok] ELSE tok

(* Language linkage of a function declared here: C in a C unit; in a C++    *)
(* unit C only inside extern "C" { }.                                       *)
Linkage(cpp, inExternC) == IF cpp THEN (IF inExternC THEN "C" ELSE "C++") ELSE "C"

(* What a declaration line adds to the unit. *)
Declared(f) ==
    [name |-> f.name, ret |-> f.ret, params |-> f.params,
     storage |-> Expand(f.decor), conv |-> f.conv,
     linkage |-> Linkage(Defined("__cplusplus"), externC)]

AtLine(k) == pc < EndOfFile /\ Header[pc].kind = k

Init ==
    /\ pc = 1
    /\ macros \in {mt \in [MacroNames -> {Undef, "", "1"}] :
                     /\ mt["MKUSB_H"] = Undef
                     /\ mt["DLLEXP"] = Undef
                     /\ mt["COMPILING_DLL"] \in {Undef, ""}
                     /\ mt["__cplusplus"] \in {Undef, "1"}}
    /\ cond = <<>>
    /\ externC = FALSE
    /\ decls = {}
    /\ defs = {}
    /\ included = 1

(* #ifndef M / #ifdef M open a group, active when the test holds and the   *)
(* enclosing group is active.                                               *)
OpenGroup(test) ==
    /\ cond' = Append(cond, [active |-> Active(cond) /\ test, taken |-> test])
    /\ pc' = pc + 1
    /\ UNCHANGED <<macros, externC, decls, defs, included>>

IfndefLine ==
    /\ AtLine("ifndef")
    /\ OpenGroup(~Defined(Header[pc].arg))

IfdefLine ==
    /\ AtLine("ifdef")
    /\ OpenGroup(Defined(Header[pc].arg))

ElseLine ==
    /\ AtLine("else")
    /\ cond # <<>>
    /\ LET n == Len(cond)
           outer == SubSeq(cond, 1, n - 1)
       IN cond' = [cond EXCEPT ![n] = [active |-> Active(outer) /\ ~cond[n].taken,
                                       taken |-> TRUE]]
    /\ pc' = pc + 1
    /\ UNCHANGED <<macros, externC, decls, defs, included>>

EndifLine ==
    /\ AtLine("endif")
    /\ cond # <<>>
    /\ cond' = SubSeq(cond, 1, Len(cond) - 1)
    /\ pc' = pc + 1
    /\ UNCHANGED <<macros, externC, decls, defs, included>>

DefineLine ==
    /\ AtLine("define")
    /\ macros' = IF Active(cond)
                 THEN [macros EXCEPT ![Header[pc].arg.macro] = Header[pc].arg.value]
                 ELSE macros
    /\ pc' = pc + 1
    /\ UNCHANGED <<cond, externC, decls, defs, included>>

(* #include "windows.h": the platform header; it touches none of the       *)
(* macros or declarations of this header.                                   *)
IncludeLine ==
    /\ AtLine("include")
    /\ pc' = pc + 1
    /\ UNCHANGED <<macros, cond, externC, decls, defs, included>>

ExternOpenLine ==
    /\ AtLine("extern_open")
    /\ externC' = IF Active(cond) THEN TRUE ELSE externC
    /\ pc' = pc + 1
    /\ UNCHANGED <<macros, cond, decls, defs, included>>

ExternCloseLine ==
    /\ AtLine("extern_close")
    /\ externC' = IF Active(cond) THEN FALSE ELSE externC
    /\ pc' = pc + 1
    /\ UNCHANGED <<macros, cond, decls, defs, included>>

DeclLine ==
    /\ AtLine("decl")
    /\ LET f == Header[pc].arg
       IN /\ decls' = IF Active(cond) THEN decls \cup {Declared(f)} ELSE decls
          /\ defs' = IF Active(cond) /\ f.body THEN defs \cup {f.name} ELSE defs
    /\ pc' = pc + 1
    /\ UNCHANGED <<macros, cond, externC, included>>

BlankLine ==
    /\ AtLine("blank")
    /\ pc' = pc + 1
    /\ UNCHANGED <<macros, cond, externC, decls, defs, included>>

(* The unit includes the header again (directly or through another header). *)
IncludeAgain ==
    /\ pc = EndOfFile
    /\ included < MaxIncludes
    /\ included' = included + 1
    /\ pc' = 1
    /\ UNCHANGED <<macros, cond, externC, decls, defs>>

Next ==
    \/ IfndefLine
    \/ IfdefLine
    \/ ElseLine
    \/ EndifLine
    \/ DefineLine
    \/ IncludeLine
    \/ ExternOpenLine
    \/ ExternCloseLine
    \/ DeclLine
    \/ BlankLine
    \/ IncludeAgain

Spec == Init /\ [][Next]_vars

(***************************************************************************)
(* Vocabulary of the properties.                                           *)
(***************************************************************************)
ReadThrough == pc = EndOfFile

Has(n) == \E d \in decls : d.name = n

Get(n) == CHOOSE d \in decls : d.name = n

ParamTypes(d) == [k \in 1..Len(d.params) |-> d.params[k].type]

ParamNames(d) == {d.params[k].name : k \in 1..Len(d.params)}

IsInteger(t) == ~t.ptr /\ t.base \in IntegerBases

IsBool(t) == ~t.ptr /\ t.base = "bool"

(* The first parameter is the device index "int i". *)
TakesIndexFirst(d) == Len(d.params) >= 1 /\ d.params[1] = P(T("int"), "i")

TypeOK ==
    /\ pc \in 1..EndOfFile
    /\ included \in 1..MaxIncludes
    /\ externC \in BOOLEAN
    /\ defs \subseteq {d.name : d \in decls}


LineOf(n) == CHOOSE l \in 1..Len(Header) : Header[l].kind = "decl" /\ Header[l].arg.name = n

(* Names declared in the header between two declarations, both included.  *)
DeclaredBetween(first, last) ==
    {Header[l].arg.name :
        l \in {k \in LineOf(first)..LineOf(last) : Header[k].kind = "decl"}}

AllNames == {Header[l].arg.name : l \in {k \in 1..Len(Header) : Header[k].kind = "decl"}}

HasPointerParam(d) == \E k \in 1..Len(d.params) : d.params[k].type.ptr

PointerParams(d, b) == {k \in 1..Len(d.params) : d.params[k].type = Ptr(b)}

(* The unit has read the whole header once and received its declarations. *)
AllDeclared == ReadThrough /\ {d.name : d \in decls} = AllNames

(***************************************************************************)
(* C1.  Original statement: every declared function returns a boolean or   *)
(* an integer; none returns nothing.                                       *)
(***************************************************************************)
C1_EveryReturnBoolOrInteger ==
    \A d \in decls : IsBool(d.ret) \/ IsInteger(d.ret)

(* C1 as amended: every declared function returns a boolean or an integer, *)
(* except mk_Close, which returns nothing (void); no declared function     *)
(* returns any other type, so none returns a structured error code.        *)
C1_ReturnBoolOrIntegerExceptClose ==
    /\ \A d \in decls :
          IF d.name = "mk_Close"
          THEN d.ret = T("void")
          ELSE IsBool(d.ret) \/ IsInteger(d.ret)
    /\ ReadThrough => Has("mk_Close")

C1_Witness ==
    /\ AllDeclared
    /\ Get("mk_Close").ret = T("void")
    /\ IsInteger(Get("mk_version").ret)
    /\ IsBool(Get("mk_senr_GetPeakSpRaw").ret)

(***************************************************************************)
(* C2.  The operations that open or close one device.                      *)
(***************************************************************************)
OpenDeviceOps == {"mk_OpenSpDev", "mk_OpenSpDev_OptSn"}

CloseDeviceOps == {"mk_CloseSpDev"}

TakesString(d, names) ==
    \E k \in 1..Len(d.params) :
        d.params[k].type = Ptr("char") /\ d.params[k].name \in names

DeviceNameParams == {"Name", "name"}

SerialParams == {"sn"}

LifecycleDeclared ==
    /\ Has("mk_Init") /\ Has("mk_Close")
    /\ Has("mk_FindFirst") /\ Has("mk_FindNext") /\ Has("mk_FindClose")
    /\ Has("mk_GetDeviceCnt")
    /\ IsInteger(Get("mk_GetDeviceCnt").ret) /\ Get("mk_GetDeviceCnt").params = <<>>
    /\ TakesString(Get("mk_FindFirst"), DeviceNameParams)
    /\ TakesString(Get("mk_FindNext"), DeviceNameParams)

(* C2, original statement: once the header is read, both for open and for  *)
(* close there is an operation taking a device name and one taking a       *)
(* serial number.                                                          *)
C2_OpenAndCloseByNameOrSerial ==
    ReadThrough =>
        /\ LifecycleDeclared
        /\ \A family \in {OpenDeviceOps, CloseDeviceOps} :
              /\ \E d \in decls : d.name \in family /\ TakesString(d, DeviceNameParams)
              /\ \E d \in decls : d.name \in family /\ TakesString(d, SerialParams)

(* C2 as amended: the driver can be initialized and closed, devices        *)
(* enumerated and counted, and a device opened by name (mk_OpenSpDev) or   *)
(* by serial number (mk_OpenSpDev_OptSn); a device is closed by the        *)
(* integer index only (mk_CloseSpDev(int i)): no close operation takes a   *)
(* name or a serial number.                                                *)
C2_OpenByNameOrSerialCloseByIndex ==
    /\ ReadThrough =>
          /\ LifecycleDeclared
          /\ \E d \in decls : d.name \in OpenDeviceOps /\ TakesString(d, DeviceNameParams)
          /\ \E d \in decls : d.name \in OpenDeviceOps /\ TakesString(d, SerialParams)
          /\ \E d \in decls : d.name \in CloseDeviceOps
    /\ \A d \in decls :
          d.name \in CloseDeviceOps =>
              /\ d.params = <<P(T("int"), "i")>>
              /\ ~HasPointerParam(d)
    /\ \A d \in decls :
          d.name \in OpenDeviceOps => Len(d.params) = 1 /\ d.params[1].type = Ptr("char")

C2_Witness ==
    /\ AllDeclared
    /\ TakesString(Get("mk_OpenSpDev"), DeviceNameParams)
    /\ TakesString(Get("mk_OpenSpDev_OptSn"), SerialParams)
    /\ Get("mk_CloseSpDev").params = <<P(T("int"), "i")>>

(***************************************************************************)
(* C3.  Handle-based resource model.  The operations declared after        *)
(* mk_CloseSpDev are the measurement, data-retrieval, peripheral and       *)
(* flicker operations.  Two of them act on a list of devices and one on no *)
(* device; every other one acts on one device.                             *)
(***************************************************************************)
SubsystemOps == DeclaredBetween("mk_Msr_Capture", "mk_senr_GetPeakSpRaw")

BatchOps == {"mk_Msr_Capture_multi", "mk_Msr_Dark_multi"}

DevicelessOps == {"mk_Msr_GenerateCorrMatrix"}

SingleDeviceOps == (SubsystemOps \ BatchOps) \ DevicelessOps

(* C3: open returns the integer index, close takes it, and every           *)
(* operation that acts on one device takes "int i" as its first argument;  *)
(* the operations set apart as batch or deviceless indeed take no index.   *)
C3_HandleIsIndexFirstArgument ==
    /\ \A d \in decls :
          /\ d.name \in OpenDeviceOps => d.ret = T("int")
          /\ d.name \in CloseDeviceOps => TakesIndexFirst(d)
          /\ d.name \in SingleDeviceOps => TakesIndexFirst(d)
          /\ d.name \in BatchOps =>
                d.params[1] = P(Ptr("int"), "list") /\ "i" \notin ParamNames(d)
          /\ d.name \in DevicelessOps =>
                "i" \notin ParamNames(d) /\ "list" \notin ParamNames(d)
    /\ ReadThrough =>
          (OpenDeviceOps \cup CloseDeviceOps \cup SubsystemOps) \subseteq {d.name : d \in decls}

C3_Witness ==
    /\ AllDeclared
    /\ Get("mk_OpenSpDev").ret = T("int")
    /\ TakesIndexFirst(Get("mk_CloseSpDev"))
    /\ TakesIndexFirst(Get("mk_Peri_GetTemp"))
    /\ TakesIndexFirst(Get("mk_flk_GetFreqDomainWaveform"))
    /\ Cardinality(SingleDeviceOps) > Cardinality(BatchOps \cup DevicelessOps)

(***************************************************************************)
(* C4.  Buffers cross the boundary through caller-supplied pointers.       *)
(***************************************************************************)
BufferResultOps ==
    {"mk_FindFirst", "mk_FindNext", "mk_GetOptSnByName",
     "mk_Msr_GetCorrMatrixPara", "mk_Msr_GenerateCorrMatrix", "mk_GetData",
     "mk_GetSpectrum", "mk_GetMicroMole", "mk_GetOptSn", "mk_lv_GetOptSn",
     "mk_Info_Get", "mk_flk_GetData", "mk_flk_GetTimeDomainWaveform",
     "mk_flk_GetFreqDomainWaveform", "mk_sflk_CaptureRaw", "mk_sflk_GetData",
     "mk_senr_GetPeakSpRaw"}

ElementCountParams == {"len", "size", "dev_cnt"}

(* C4: no declared operation returns a pointer; every operation that       *)
(* yields an array or a string has a pointer parameter to write it         *)
(* through; and a buffer's element count, where passed, is a plain int     *)
(* passed by value.                                                        *)
C4_BuffersThroughPointerArguments ==
    /\ \A d \in decls :
          /\ ~d.ret.ptr
          /\ d.name \in BufferResultOps => HasPointerParam(d)
          /\ \A k \in 1..Len(d.params) :
                d.params[k].name \in ElementCountParams => d.params[k].type = T("int")
    /\ ReadThrough => \A n \in BufferResultOps : Has(n)

C4_Witness ==
    /\ AllDeclared
    /\ HasPointerParam(Get("mk_GetSpectrum"))
    /\ P(T("int"), "size") \in {Get("mk_flk_GetTimeDomainWaveform").params[k] : k \in 1..3}
    /\ P(T("int"), "len") \in {Get("mk_Msr_GenerateCorrMatrix").params[k] : k \in 1..5}
    /\ \E d \in decls : d.name \in BufferResultOps /\ ParamNames(d) \cap ElementCountParams = {}

(***************************************************************************)
(* C5.  Every declared function has C linkage, the __cdecl calling         *)
(* convention and the DLLEXP decoration, which is dllexport exactly when   *)
(* COMPILING_DLL is defined and dllimport otherwise.                       *)
(***************************************************************************)
C5_CLinkageCdeclAndDllDecoration ==
    \A d \in decls :
        /\ d.linkage = "C"
        /\ d.conv = "__cdecl"
        /\ d.storage = IF Defined("COMPILING_DLL")
                       THEN "__declspec(dllexport)"
                       ELSE "__declspec(dllimport)"

(* A C++ unit that builds the library has read the header through. *)
C5_Witness ==
    /\ AllDeclared
    /\ Defined("__cplusplus") /\ Defined("COMPILING_DLL")
    /\ \A d \in decls : d.linkage = "C" /\ d.storage = "__declspec(dllexport)"

(***************************************************************************)
(* C6.  The flicker/waveform subsystem.                                    *)
(***************************************************************************)
FilterParams == <<"sample_num", "sample_freq", "fir_num", "fir_cutfreq">>

(* index first, then the four sampling/filter parameters, all integers *)
IsSetPara(d) ==
    /\ TakesIndexFirst(d)
    /\ Len(d.params) = Len(FilterParams) + 1
    /\ \A k \in 1..Len(FilterParams) :
          d.params[k + 1].name = FilterParams[k] /\ IsInteger(d.params[k + 1].type)

HasFlag(d, n) ==
    \E k \in 1..Len(d.params) : d.params[k].name = n /\ IsInteger(d.params[k].type)

FlickerOps == DeclaredBetween("mk_flk_Dark", "mk_flk_GetFreqDomainWaveform")
                  \cup DeclaredBetween("mk_sflk_Dark", "mk_sflk_GetData")

(* C6: for a device index the header declares a flicker dark capture, a    *)
(* parameter configuration taking sample count, sample frequency, FIR tap  *)
(* count and FIR cut-off frequency, a capture with an enable_fir flag, the *)
(* time-domain and the frequency-domain waveform retrieval into float      *)
(* buffers, and a raw capture into a caller-supplied void* buffer.         *)
C6_FlickerSubsystemDeclared ==
    /\ \A d \in decls :
          /\ d.name \in FlickerOps => TakesIndexFirst(d) /\ IsBool(d.ret)
          /\ d.name \in {"mk_flk_SetPara", "mk_sflk_SetPara"} => IsSetPara(d)
          /\ d.name \in {"mk_flk_Capture", "mk_sflk_Capture"} => HasFlag(d, "enable_fir")
          /\ d.name = "mk_flk_GetTimeDomainWaveform" =>
                PointerParams(d, "float") # {} /\ HasFlag(d, "size")
          /\ d.name = "mk_flk_GetFreqDomainWaveform" =>
                Cardinality(PointerParams(d, "float")) = 2 /\ HasFlag(d, "size")
          /\ d.name = "mk_sflk_CaptureRaw" => PointerParams(d, "void") # {}
    /\ ReadThrough =>
          /\ FlickerOps \subseteq {d.name : d \in decls}
          /\ {"mk_flk_Dark", "mk_flk_SetPara", "mk_flk_Capture",
              "mk_flk_GetTimeDomainWaveform", "mk_flk_GetFreqDomainWaveform",
              "mk_sflk_Dark", "mk_sflk_SetPara", "mk_sflk_Capture",
              "mk_sflk_CaptureRaw"} \subseteq FlickerOps

C6_Witness ==
    /\ AllDeclared
    /\ IsSetPara(Get("mk_flk_SetPara"))
    /\ HasFlag(Get("mk_flk_Capture"), "enable_fir")
    /\ PointerParams(Get("mk_sflk_CaptureRaw"), "void") # {}
    /\ Cardinality(PointerParams(Get("mk_flk_GetFreqDomainWaveform"), "float")) = 2

(***************************************************************************)
(* C7.  Calibration: correction-matrix get, set and generation.            *)
(***************************************************************************)
CorrMatrixArgs ==
    <<P(T("int"), "i"), P(T("unsigned int"), "ch"), P(Ptr("char"), "name"),
      P(Ptr("double"), "data")>>

(* C7: get and set of the correction matrix take the same arguments        *)
(* (device index, channel, matrix name, double array); generation takes a  *)
(* reference array, a measured array, their length, the result array and a *)
(* color-space selector, and no device index.                              *)
C7_CorrMatrixGetSetSameArguments ==
    /\ \A g, s \in decls :
          g.name = "mk_Msr_GetCorrMatrixPara" /\ s.name = "mk_Msr_SetCorrMatrixPara" =>
              /\ g.params = CorrMatrixArgs
              /\ ParamTypes(s) = ParamTypes(g)
              /\ s.params = g.params
              /\ s.ret = g.ret
    /\ \A d \in decls :
          d.name = "mk_Msr_GenerateCorrMatrix" =>
              /\ ParamTypes(d) = <<Ptr("double"), Ptr("double"), T("int"), Ptr("double"),
                                   T("int")>>
              /\ ParamNames(d) = {"ref", "mes", "len", "corr", "colorspace"}
              /\ ~TakesIndexFirst(d)
    /\ \A d \in decls :
          d.name = "mk_Msr_SetCorrMatrixCH" =>
              d.params = <<P(T("int"), "i"), P(T("unsigned int"), "ch")>>
    /\ ReadThrough =>
          DeclaredBetween("mk_Msr_SetCorrMatrixCH", "mk_Msr_GenerateCorrMatrix")
              \subseteq {d.name : d \in decls}

C7_Witness ==
    /\ AllDeclared
    /\ Get("mk_Msr_GetCorrMatrixPara").params = Get("mk_Msr_SetCorrMatrixPara").params
    /\ Len(Get("mk_Msr_GenerateCorrMatrix").params) = 5
    /\ Cardinality(DeclaredBetween("mk_Msr_SetCorrMatrixCH", "mk_Msr_GenerateCorrMatrix")) = 4

(***************************************************************************)
(* C8.  The header defines nothing.  The claim's "preprocessor guards" is  *)
(* read as the preprocessor lines together with the extern "C" braces      *)
(* that stand between #ifdef __cplusplus and #endif.                       *)
(***************************************************************************)
DirectiveKinds == {"ifndef", "ifdef", "else", "endif", "define", "include"}

GuardedBrace(l) ==
    /\ Header[l].kind \in {"extern_open", "extern_close"}
    /\ l > 1 /\ Header[l - 1] = Ifdef("__cplusplus")
    /\ l < Len(Header) /\ Header[l + 1] = Endif

(* C8: whatever part of the header the unit has read, it has received no   *)
(* definition (no function body; the header has no variable or type        *)
(* lines), every line read is blank, a preprocessor line, a guarded        *)
(* extern "C" brace or a function declaration without a body, and the      *)
(* only macros the header sets are its own guard and DLLEXP.               *)
C8_HeaderDefinesNothing ==
    /\ defs = {}
    /\ \A l \in 1..(pc - 1) :
          \/ Header[l].kind = "blank"
          \/ Header[l].kind \in DirectiveKinds
          \/ GuardedBrace(l)
          \/ Header[l].kind = "decl" /\ ~Header[l].arg.body
    /\ \A l \in 1..(pc - 1) :
          Header[l].kind = "define" => Header[l].arg.macro \in {"MKUSB_H", "DLLEXP"}
    /\ Cardinality(decls) <= Cardinality(AllNames)

C8_Witness ==
    /\ AllDeclared
    /\ defs = {}
    /\ Cardinality(decls) = Cardinality(AllNames)
    /\ included = MaxIncludes

(***************************************************************************)
(* C9.  Batch and single-device measurement operations.                    *)
(***************************************************************************)
SingleMeasureOps == {"mk_Msr_Capture", "mk_Msr_Dark"}

(* C9: mk_Msr_Capture_multi and mk_Msr_Dark_multi take the list of device  *)
(* indices (an int pointer), its length dev_cnt (int) and one bool array   *)
(* for the per-device outcome, and return bool; mk_Msr_Capture and         *)
(* mk_Msr_Dark take one index, no pointer, and return bool.                *)
C9_BatchOpsReportPerDevice ==
    /\ \A d \in decls :
          /\ d.name \in BatchOps =>
                /\ IsBool(d.ret)
                /\ d.params[1] = P(Ptr("int"), "list")
                /\ \E k \in 1..Len(d.params) : d.params[k] = P(T("int"), "dev_cnt")
                /\ Cardinality(PointerParams(d, "bool")) = 1
          /\ d.name \in SingleMeasureOps =>
                /\ IsBool(d.ret)
                /\ TakesIndexFirst(d)
                /\ ~HasPointerParam(d)
    /\ ReadThrough => (BatchOps \cup SingleMeasureOps) \subseteq {d.name : d \in decls}

C9_Witness ==
    /\ AllDeclared
    /\ PointerParams(Get("mk_Msr_Capture_multi"), "bool") = {2}
    /\ PointerParams(Get("mk_Msr_Dark_multi"), "bool") = {3}
    /\ ~HasPointerParam(Get("mk_Msr_Capture"))
    /\ ~HasPointerParam(Get("mk_Msr_Dark"))

====
